---- MODULE Spec2Model ----
(***************************************************************************)
(* Driver for the AT93C86A 3-wire serial EEPROM (src/spi_flash.c), modelled *)
(* together with the bus it drives.  Every driver function is an operator   *)
(* that takes the "world" (chip-select line, dump flag, the device on the   *)
(* bus, the log of bus and line events of the running call) and returns    *)
(* the world after the call.  One action per public function.              *)
(***************************************************************************)
EXTENDS Integers, Sequences, FiniteSets, TLC

VARIABLES cs,         \* level of the chip-select output (gpio_put)
          dump_flag,  \* static uint8_t dump_flag
          dev,        \* the EEPROM on the bus
          log,        \* line and bus events of the most recent call, in order
          data,       \* what the most recent call stored through uint16_t *data
          call,       \* the most recent call: its name and arguments
          buffer,     \* the caller's uint16_t array of 0x400 words
          str,        \* what the most recent call stored through char *str
          steps       \* calls made so far, counted where the run is bounded

vars == <<cs, dump_flag, dev, log, data, call, buffer, str, steps>>

----------------------------------------------------------------------------
(* Program constants *)

EEPROM_CMD_READ == 6
EEPROM_CMD_WRITE == 5
EEPROM_CMD_ERASE == 7
EEPROM_CMD_WEN == 19
EEPROM_CMD_WDS == 16
AddrMask == 1023
WordMask == 65535
ByteMask == 255
WriteSettleMs == 7
EraseSettleMs == 4
CsDelayNs == 250

(* No value stored through *data by the call. *)
NoData == 0 - 1

----------------------------------------------------------------------------
(* C integer arithmetic on naturals *)

Pow2(n) == 2 ^ n

Shl(x, n) == x * Pow2(n)

Shr(x, n) == x \div Pow2(n)

RECURSIVE BitAnd(_, _)
BitAnd(a, b) ==
  IF a = 0 \/ b = 0 THEN 0
  ELSE (a % 2) * (b % 2) + 2 * BitAnd(a \div 2, b \div 2)

RECURSIVE BitOr(_, _)
BitOr(a, b) ==
  IF a = 0 THEN b
  ELSE IF b = 0 THEN a
  ELSE ((a % 2) + (b % 2) - (a % 2) * (b % 2)) + 2 * BitOr(a \div 2, b \div 2)

(* Conversions to the unsigned types of the source. *)
U8(x) == x % 256

U16(x) == x % 65536

(* Bit i of x, bit 0 the least significant. *)
Bit(x, i) == (x \div Pow2(i)) % 2

----------------------------------------------------------------------------
(* Events of the log *)

EvCs(level) == [k |-> "cs", n |-> level, bytes |-> <<>>]

EvDelay(ns) == [k |-> "delay_ns", n |-> ns, bytes |-> <<>>]

EvSleep(ms) == [k |-> "sleep_ms", n |-> ms, bytes |-> <<>>]

EvTx(bytes) == [k |-> "tx", n |-> Len(bytes), bytes |-> bytes]

EvRx(bytes) == [k |-> "rx", n |-> Len(bytes), bytes |-> bytes]

(* A bus transfer of len bytes reported a fault. *)
EvFault(len) == [k |-> "fault", n |-> len, bytes |-> <<>>]

(* printf("%04X ", data) *)
EvPrint(word) == [k |-> "print", n |-> word, bytes |-> <<>>]

(* eeprom_buffer[index] = word *)
EvStore(index, word) == [k |-> "store", n |-> index, bytes |-> <<word>>]

----------------------------------------------------------------------------
(* The device on the bus: an AT93C86A in x16 organisation.  After           *)
(* chip-select rises it skips leading 0 bits, takes the first 1 as the     *)
(* start bit, then a 2-bit opcode and a 10-bit address.  A READ shifts out *)
(* one 0 dummy bit and then the addressed word, most significant bit       *)
(* first, continuing with the following words while it is clocked.  A      *)
(* WRITE stores the next 16 bits when the enable latch is set.             *)

NumWords == 1024

ErasedWord == 65535

DevPowerUp(mem, level) ==
  [mem |-> mem, wen |-> FALSE, cs |-> level,
   phase |-> IF level = 1 THEN "start" ELSE "idle",
   acc |-> 0, cnt |-> 0, op |-> "none", addr |-> 0, outpos |-> 0]

(* The chip-select input follows the line. *)
DevCs(d, level) ==
  IF level = d.cs THEN d
  ELSE IF level = 1
       THEN [d EXCEPT !.cs = 1, !.phase = "start", !.acc = 0, !.cnt = 0,
                      !.op = "none", !.outpos = 0]
       ELSE [d EXCEPT !.cs = 0, !.phase = "idle"]

(* The 13 bits start, opcode, address have been received: acc holds the    *)
(* 12 bits after the start bit.                                            *)
DevDecode(d, acc) ==
  LET opc == acc \div 1024
      a   == acc % 1024
      sub == a \div 256
  IN  IF opc = 2 THEN
        [d EXCEPT !.phase = "rout", !.op = "read", !.addr = a, !.outpos = 0]
      ELSE IF opc = 1 THEN
        [d EXCEPT !.phase = "wdata", !.op = "write", !.addr = a,
                  !.acc = 0, !.cnt = 0]
      ELSE IF opc = 3 THEN
        [d EXCEPT !.phase = "done", !.op = "erase", !.addr = a,
                  !.mem = IF d.wen THEN [d.mem EXCEPT ![a] = ErasedWord]
                          ELSE d.mem]
      ELSE IF sub = 3 THEN
        [d EXCEPT !.phase = "done", !.op = "ewen", !.wen = TRUE]
      ELSE IF sub = 0 THEN
        [d EXCEPT !.phase = "done", !.op = "ewds", !.wen = FALSE]
      ELSE IF sub = 2 THEN
        [d EXCEPT !.phase = "done", !.op = "eral",
                  !.mem = IF d.wen THEN [x \in 0..(NumWords - 1) |-> ErasedWord]
                          ELSE d.mem]
      ELSE
        [d EXCEPT !.phase = "wdata", !.op = "wral", !.acc = 0, !.cnt = 0]

(* The bit the device drives on its data output at the next clock. *)
DevOut(d) ==
  IF d.phase # "rout" \/ d.outpos = 0 THEN 0
  ELSE LET i == d.outpos - 1
       IN  Bit(d.mem[(d.addr + (i \div 16)) % NumWords], 15 - (i % 16))

(* One clock with bit din on the data input. *)
DevClock(d, din) ==
  IF d.phase = "start" THEN
    IF din = 1 THEN [d EXCEPT !.phase = "cmd", !.acc = 0, !.cnt = 0] ELSE d
  ELSE IF d.phase = "cmd" THEN
    IF d.cnt = 11 THEN DevDecode(d, d.acc * 2 + din)
    ELSE [d EXCEPT !.acc = d.acc * 2 + din, !.cnt = d.cnt + 1]
  ELSE IF d.phase = "wdata" THEN
    IF d.cnt = 15 THEN
      LET w == d.acc * 2 + din
      IN  [d EXCEPT !.phase = "done", !.acc = 0, !.cnt = 0,
                    !.mem = IF ~d.wen THEN d.mem
                            ELSE IF d.op = "wral"
                                 THEN [x \in 0..(NumWords - 1) |-> w]
                                 ELSE [d.mem EXCEPT ![d.addr] = w]]
    ELSE [d EXCEPT !.acc = d.acc * 2 + din, !.cnt = d.cnt + 1]
  ELSE IF d.phase = "rout" THEN [d EXCEPT !.outpos = d.outpos + 1]
  ELSE d

(* Eight clocks, most significant bit first: byte tx goes in, the byte the *)
(* device drives comes out.  r = [dev, rx, n], n the bits clocked so far.  *)
RECURSIVE DevBits(_, _)
DevBits(r, tx) ==
  IF r.n = 8 THEN r
  ELSE DevBits([dev |-> DevClock(r.dev, Bit(tx, 7 - r.n)),
                rx  |-> r.rx * 2 + DevOut(r.dev),
                n   |-> r.n + 1], tx)

DevByte(d, tx) == DevBits([dev |-> d, rx |-> 0, n |-> 0], tx)

----------------------------------------------------------------------------
(* The collaborators: digital output, delays, blocking bus transfers.  A   *)
(* world w is [cs, dump_flag, dev, log, data, rxbuf, feed, buf, str,       *)
(* fault]; feed, when not empty, is what the data input line delivers      *)
(* instead of the device's output; buf is the caller's word array, str     *)
(* what the call stored through its char pointer; fault = k > 0 says that  *)
(* the k-th bus transfer from now reports a fault, 0 that none does.       *)

Emit(w, e) == [w EXCEPT !.log = Append(w.log, e)]

gpio_put(w, level) ==
  Emit([w EXCEPT !.cs = level, !.dev = DevCs(w.dev, level)], EvCs(level))

delay_250ns(w) == Emit(w, EvDelay(CsDelayNs))

sleep_ms(w, ms) == Emit(w, EvSleep(ms))

(* r = [dev, rx, feed]: clock the bytes of tx through the device, in order, *)
(* collecting in rx what is received; Len(r.rx) bytes have been clocked.    *)
RECURSIVE Transfer(_, _)
Transfer(r, tx) ==
  IF Len(r.rx) = Len(tx) THEN r
  ELSE LET b == DevByte(r.dev, tx[Len(r.rx) + 1])
           got == IF r.feed = <<>> THEN b.rx ELSE Head(r.feed)
       IN  Transfer([dev |-> b.dev, rx |-> Append(r.rx, got),
                     feed |-> IF r.feed = <<>> THEN <<>> ELSE Tail(r.feed)],
                    tx)

(* A bus transfer of len bytes that reports a fault (bus not ready,        *)
(* timeout): no byte is clocked, the device and the receive buffer stay   *)
(* as they are.  The driver's call sites take no result from the          *)
(* transfer, so nothing of the report remains in the world but the event. *)
bus_fault(w, len) == Emit([w EXCEPT !.fault = 0], EvFault(len))

(* One transfer fewer until the faulting one. *)
FaultNearer(k) == IF k = 0 THEN 0 ELSE k - 1

(* spi_write_blocking(spi, src, len): what comes back is discarded. *)
spi_write_blocking(w, src) ==
  IF w.fault = 1 THEN bus_fault(w, Len(src))
  ELSE LET r == Transfer([dev |-> w.dev, rx |-> <<>>, feed |-> <<>>], src)
       IN  Emit([w EXCEPT !.dev = r.dev, !.fault = FaultNearer(w.fault)],
                EvTx(src))

(* spi_read_blocking(spi, repeated_tx_data, dst, len): the world after the *)
(* transfer, with the len received bytes in rxbuf.                         *)
spi_read_blocking(w, repeated_tx_data, len) ==
  IF w.fault = 1 THEN bus_fault(w, len)
  ELSE LET r == Transfer([dev |-> w.dev, rx |-> <<>>, feed |-> w.feed],
                         [i \in 1..len |-> repeated_tx_data])
       IN  Emit([w EXCEPT !.dev = r.dev, !.feed = r.feed, !.rxbuf = r.rx,
                          !.fault = FaultNearer(w.fault)],
                EvRx(r.rx))

----------------------------------------------------------------------------
(* The driver *)

(* Variant: the line driven low to select, as for an active-low device. *)
cs_select_ActiveLow(w) == delay_250ns(gpio_put(w, 0))

cs_select(w) == delay_250ns(gpio_put(w, 1))

cs_deselect(w) == delay_250ns(gpio_put(w, 0))

(* {cmd >> 8, cmd & 0xFF} stored into uint8_t cmdbuf[2] *)
Split16(cmd) == <<U8(Shr(cmd, 8)), BitAnd(cmd, ByteMask)>>

(* {(cmd >> 24) & 0xFF, (cmd >> 16) & 0xFF, (cmd >> 8) & 0xFF, cmd & 0xFF} *)
Split32(cmd) ==
  <<BitAnd(Shr(cmd, 24), ByteMask), BitAnd(Shr(cmd, 16), ByteMask),
    BitAnd(Shr(cmd, 8), ByteMask), BitAnd(cmd, ByteMask)>>

(* Variant: the opcode shifted as if the command were 9 bits wide. *)
WenCmd_Shift4 == U16(Shl(EEPROM_CMD_WEN, 4))

WenCmd == U16(Shl(EEPROM_CMD_WEN, 11))

WdsCmd == U16(Shl(EEPROM_CMD_WDS, 11))

(* Variant: the address not masked to 10 bits. *)
ReadCmd_NoMask(addr) == U16(BitOr(Shl(EEPROM_CMD_READ, 10), addr))

(* Variant: the command left-justified with 3 trailing dummy bits, as for *)
(* erase.                                                                *)
ReadCmd_LeftJustified(addr) ==
  U16(BitOr(Shl(EEPROM_CMD_READ, 13), Shl(BitAnd(addr, AddrMask), 3)))

ReadCmd(addr) == U16(BitOr(Shl(EEPROM_CMD_READ, 10), BitAnd(addr, AddrMask)))

(* Variant: opcode and address one bit further left. *)
WriteCmd_Shift27(addr, d) ==
  BitOr(BitOr(Shl(EEPROM_CMD_WRITE, 27), Shl(BitAnd(addr, AddrMask), 17)),
        BitAnd(d, WordMask))

WriteCmd(addr, d) ==
  BitOr(BitOr(Shl(EEPROM_CMD_WRITE, 26), Shl(BitAnd(addr, AddrMask), 16)),
        BitAnd(d, WordMask))

(* Variant: the address placed without the 3 dummy bits. *)
EraseCmd_NoDummy(addr) ==
  U16(BitOr(Shl(EEPROM_CMD_ERASE, 13), BitAnd(addr, AddrMask)))

(* Variant: the address shifted one bit too far. *)
EraseCmd_Shift4(addr) ==
  U16(BitOr(Shl(EEPROM_CMD_ERASE, 13), Shl(BitAnd(addr, AddrMask), 4)))

EraseCmd(addr) ==
  U16(BitOr(Shl(EEPROM_CMD_ERASE, 13), Shl(BitAnd(addr, AddrMask), 3)))

(* Variant: two bytes combined and shifted right by 2. *)
ReadAlign_Shift2(databuf) ==
  Shr(U16(BitOr(Shl(databuf[1], 8), databuf[2])), 2)

(* ((uint16_t)(databuf[0] << 9)) | ((uint16_t)(databuf[1] << 1))           *)
(*                               | ((databuf[2] >> 7) & 0x01)              *)
ReadAlign(databuf) ==
  BitOr(BitOr(U16(Shl(databuf[1], 9)), U16(Shl(databuf[2], 1))),
        BitAnd(Shr(databuf[3], 7), 1))

eeprom_write_enable(w) ==
  LET w1 == cs_select(cs_deselect(w))
      w2 == spi_write_blocking(w1, Split16(WenCmd))
  IN  cs_deselect(w2)

eeprom_write_disable(w) ==
  LET w1 == cs_select(cs_deselect(w))
      w2 == spi_write_blocking(w1, Split16(WdsCmd))
  IN  cs_deselect(w2)

(* Variant: a 2-byte response, the line toggled by the call itself. *)
eeprom_read_TwoBytes(w, addr) ==
  LET w1 == cs_select(cs_deselect(w))
      w2 == spi_write_blocking(w1, Split16(ReadCmd(addr)))
      w3 == spi_read_blocking(w2, 0, 2)
      w4 == [w3 EXCEPT !.data = U16(ReadAlign_Shift2(w3.rxbuf))]
  IN  cs_deselect(w4)

(* Variant: the call ends with the deassert. *)
eeprom_read_NoReselect(w, addr) ==
  LET w1 == IF w.dump_flag = 0 THEN cs_select(cs_deselect(w)) ELSE w
      w2 == spi_write_blocking(w1, Split16(ReadCmd(addr)))
      w3 == spi_read_blocking(w2, 0, 3)
      w4 == [w3 EXCEPT !.data = U16(ReadAlign(w3.rxbuf))]
  IN  IF w.dump_flag = 0 THEN cs_deselect(w4) ELSE w4

(* Variant: the command sent inside the block the dump flag guards. *)
eeprom_read_CommandInGuard(w, addr) ==
  LET w1 == IF w.dump_flag = 0
            THEN spi_write_blocking(
                   [cs_select(cs_deselect(w)) EXCEPT !.rxbuf = <<0, 0, 0>>],
                   Split16(ReadCmd(addr)))
            ELSE [w EXCEPT !.rxbuf = <<0, 0, 0>>]
      w3 == spi_read_blocking(w1, 0, 3)
      w4 == [w3 EXCEPT !.data = U16(ReadAlign(w3.rxbuf))]
  IN  IF w.dump_flag = 0 THEN cs_select(cs_deselect(w4)) ELSE w4

(* uint8_t databuf[3] = {0} is the receive buffer of each call. *)
eeprom_read(w, addr) ==
  LET w1 == IF w.dump_flag = 0 THEN cs_select(cs_deselect(w)) ELSE w
      w2 == spi_write_blocking([w1 EXCEPT !.rxbuf = <<0, 0, 0>>],
                               Split16(ReadCmd(addr)))
      w3 == spi_read_blocking(w2, 0, 3)
      w4 == [w3 EXCEPT !.data = U16(ReadAlign(w3.rxbuf))]
  IN  IF w.dump_flag = 0 THEN cs_select(cs_deselect(w4)) ELSE w4

(* Variant: the call ends with the deassert. *)
eeprom_write_NoReselect(w, addr, d) ==
  LET w1 == cs_select(cs_deselect(w))
      w2 == spi_write_blocking(w1, Split32(WriteCmd(addr, d)))
      w3 == sleep_ms(w2, WriteSettleMs)
  IN  cs_deselect(w3)

(* Variant: the settle delay after the deassert, as in eeprom_erase. *)
eeprom_write_SettleAfterDeselect(w, addr, d) ==
  LET w1 == cs_select(cs_deselect(w))
      w2 == spi_write_blocking(w1, Split32(WriteCmd(addr, d)))
      w3 == sleep_ms(cs_deselect(w2), WriteSettleMs)
  IN  cs_select(w3)

(* Variant: the maximum write cycle time as settle delay. *)
eeprom_write_MaxSettle(w, addr, d) ==
  LET w1 == cs_select(cs_deselect(w))
      w2 == spi_write_blocking(w1, Split32(WriteCmd(addr, d)))
      w3 == sleep_ms(w2, 10)
  IN  cs_select(cs_deselect(w3))

(* Variant: the typical write cycle time as settle delay. *)
eeprom_write_TypicalSettle(w, addr, d) ==
  LET w1 == cs_select(cs_deselect(w))
      w2 == spi_write_blocking(w1, Split32(WriteCmd(addr, d)))
      w3 == sleep_ms(w2, EraseSettleMs)
  IN  cs_select(cs_deselect(w3))

(* The older snapshot of the driver: its chip-select helpers wait 1 us,   *)
(* its eeprom_write shifts the command word once more, prints it, waits  *)
(* 10 ms and ends with the deassert.                                      *)
part000_sleep_us(w, us) == Emit(w, EvDelay(us * 1000))

part000_cs_select(w) == part000_sleep_us(gpio_put(w, 1), 1)

part000_cs_deselect(w) == part000_sleep_us(gpio_put(w, 0), 1)

(* ((EEPROM_CMD_WRITE << 27) | ((addr & 0x03FF) << 17) | data) << 1 *)
part000_WriteCmd(addr, d) ==
  Shl(BitOr(BitOr(Shl(EEPROM_CMD_WRITE, 27), Shl(BitAnd(addr, AddrMask), 17)),
            BitAnd(d, WordMask)),
      1)

part000_eeprom_write(w, addr, d) ==
  LET w1 == part000_cs_select(part000_sleep_us(part000_cs_deselect(w), 1))
      w2 == Emit(w1, EvPrint(part000_WriteCmd(addr, d)))
      w3 == spi_write_blocking(w2, Split32(part000_WriteCmd(addr, d)))
      w4 == sleep_ms(w3, 10)
  IN  part000_cs_deselect(w4)

(* Variant: the present eeprom_write with the older command word. *)
eeprom_write_ExtraShift(w, addr, d) ==
  LET w1 == cs_select(cs_deselect(w))
      w2 == spi_write_blocking(w1, Split32(part000_WriteCmd(addr, d)))
      w3 == sleep_ms(w2, WriteSettleMs)
  IN  cs_select(cs_deselect(w3))

(* The eeprom_write kept in backup_of_working.txt, with its own command   *)
(* word and byte split.                                                   *)
backup_eeprom_write(w, addr, d) ==
  LET w1  == cs_select(cs_deselect(w))
      cmd == BitOr(BitOr(Shl(EEPROM_CMD_WRITE, 26), Shl(BitAnd(addr, 1023), 16)),
                   BitAnd(d, 65535))
      cmdbuf == <<BitAnd(Shr(cmd, 24), 255), BitAnd(Shr(cmd, 16), 255),
                  BitAnd(Shr(cmd, 8), 255), BitAnd(cmd, 255)>>
      w2  == spi_write_blocking(w1, cmdbuf)
      w3  == sleep_ms(w2, 7)
  IN  cs_select(cs_deselect(w3))

eeprom_write(w, addr, d) ==
  LET w1 == cs_select(cs_deselect(w))
      w2 == spi_write_blocking(w1, Split32(WriteCmd(addr, d)))
      w3 == sleep_ms(w2, WriteSettleMs)
  IN  cs_select(cs_deselect(w3))

(* Variant: the call sets the enable latch itself. *)
eeprom_erase_AutoEnable(w, addr) ==
  LET w0 == eeprom_write_enable(cs_deselect(w))
      w1 == cs_select(w0)
      w2 == spi_write_blocking(w1, Split16(EraseCmd(addr)))
      w3 == cs_deselect(w2)
  IN  sleep_ms(w3, EraseSettleMs)

(* Variant: the settle delay before the deassert, as in eeprom_write. *)
eeprom_erase_SettleBeforeDeselect(w, addr) ==
  LET w1 == cs_select(cs_deselect(w))
      w2 == spi_write_blocking(w1, Split16(EraseCmd(addr)))
      w3 == sleep_ms(w2, EraseSettleMs)
  IN  cs_deselect(w3)

eeprom_erase(w, addr) ==
  LET w1 == cs_select(cs_deselect(w))
      w2 == spi_write_blocking(w1, Split16(EraseCmd(addr)))
      w3 == cs_deselect(w2)
  IN  sleep_ms(w3, EraseSettleMs)

(* Variant: every element written to start_addr. *)
RECURSIVE write_buf_loop_SameAddr(_, _, _, _)
write_buf_loop_SameAddr(r, start_addr, buf, len) ==
  IF r.i >= len THEN r.w
  ELSE write_buf_loop_SameAddr(
         [w |-> cs_select(eeprom_write(r.w, start_addr, buf[r.i + 1])),
          i |-> r.i + 1],
         start_addr, buf, len)

eeprom_write_buf_SameAddr(w, start_addr, buf, len) ==
  write_buf_loop_SameAddr([w |-> w, i |-> 0], start_addr, buf, len)

(* for (size_t i = 0; i < len; i++): r = [w, i] is the loop's state; buf[i]  *)
(* of the source is buf[i + 1] here; start_addr + i is converted to the     *)
(* uint16_t parameter of eeprom_write.                                      *)
RECURSIVE write_buf_loop(_, _, _, _)
write_buf_loop(r, start_addr, buf, len) ==
  IF r.i >= len THEN r.w
  ELSE write_buf_loop(
         [w |-> cs_select(eeprom_write(r.w, U16(start_addr + r.i),
                                       buf[r.i + 1])),
          i |-> r.i + 1],
         start_addr, buf, len)

eeprom_write_buf(w, start_addr, buf, len) ==
  write_buf_loop([w |-> w, i |-> 0], start_addr, buf, len)

(* for (uint16_t addr = 0; addr <= 0x03FF; addr++) of eeprom_dump:          *)
(* r = [w, addr] is the loop's state, dump_iter one pass through the body   *)
(* and the increment.                                                       *)
(* Variant: the loop stops one address early. *)
dump_more_Below(addr) == addr < AddrMask

(* addr <= 0x03FF, the condition of the loop of eeprom_dump. *)
dump_more(addr) == addr <= AddrMask

(* Variant: the loop of eeprom_dump leaves the line to eeprom_read. *)
dump_iter_NoToggle(r) ==
  LET w1 == eeprom_read(r.w, r.addr)
  IN  [w |-> Emit(w1, EvPrint(w1.data)), addr |-> U16(r.addr + 1)]

dump_iter(r) ==
  LET w1 == eeprom_read(cs_select(cs_deselect(r.w)), r.addr)
  IN  [w |-> Emit(w1, EvPrint(w1.data)), addr |-> U16(r.addr + 1)]

(* At most n passes of the loop. *)
RECURSIVE dump_block(_, _)
dump_block(r, n) ==
  IF n = 0 \/ ~dump_more(r.addr) THEN r ELSE dump_block(dump_iter(r), n - 1)

(* The loop, evaluated 32 passes at a time. *)
RECURSIVE dump_loop(_)
dump_loop(r) ==
  IF ~dump_more(r.addr) THEN r.w ELSE dump_loop(dump_block(r, 32))

(* Variant: the flag left set on return. *)
eeprom_dump_NoReset(w) ==
  LET w1 == dump_loop([w |-> [w EXCEPT !.dump_flag = 1], addr |-> 0])
  IN  [w1 EXCEPT !.data = NoData]

eeprom_dump(w) ==
  LET w1 == dump_loop([w |-> [w EXCEPT !.dump_flag = 1], addr |-> 0])
  IN  [w1 EXCEPT !.dump_flag = 0, !.data = NoData]

(* Variant: the loop stops one address early. *)
copy_more_Below(addr) == addr < AddrMask

(* addr <= 0x03FF, the condition of the loop of eeprom_copy. *)
copy_more(addr) == addr <= AddrMask

(* The loop of eeprom_copy. *)
copy_iter(r) ==
  LET w1 == eeprom_read(cs_select(cs_deselect(r.w)), r.addr)
  IN  [w |-> Emit([w1 EXCEPT !.buf[r.addr] = w1.data],
                  EvStore(r.addr, w1.data)),
       addr |-> U16(r.addr + 1)]

RECURSIVE copy_block(_, _)
copy_block(r, n) ==
  IF n = 0 \/ ~copy_more(r.addr) THEN r ELSE copy_block(copy_iter(r), n - 1)

RECURSIVE copy_loop(_)
copy_loop(r) ==
  IF ~copy_more(r.addr) THEN r.w ELSE copy_loop(copy_block(r, 32))

eeprom_copy(w) ==
  LET w1 == copy_loop([w |-> [w EXCEPT !.dump_flag = 1], addr |-> 0])
  IN  [w1 EXCEPT !.dump_flag = 0, !.data = NoData]

(* addr <= 0x03FF, the condition of the loop of eeprom_paste. *)
paste_more(addr) == addr <= AddrMask

(* Variant: every word doubled on its way out, as the caller of line 575   *)
(* does to its array.                                                      *)
paste_iter_Doubled(r, eeprom_buffer) ==
  [w |-> eeprom_write(r.w, r.addr, U16(eeprom_buffer[r.addr] * 2)),
   addr |-> U16(r.addr + 1)]

(* The loop of eeprom_paste. *)
paste_iter(r, eeprom_buffer) ==
  [w |-> eeprom_write(r.w, r.addr, eeprom_buffer[r.addr]),
   addr |-> U16(r.addr + 1)]

RECURSIVE paste_block(_, _, _)
paste_block(r, eeprom_buffer, n) ==
  IF n = 0 \/ ~paste_more(r.addr) THEN r
  ELSE paste_block(paste_iter(r, eeprom_buffer), eeprom_buffer, n - 1)

RECURSIVE paste_loop(_, _)
paste_loop(r, eeprom_buffer) ==
  IF ~paste_more(r.addr) THEN r.w
  ELSE paste_loop(paste_block(r, eeprom_buffer, 32), eeprom_buffer)

eeprom_paste(w, eeprom_buffer) ==
  paste_loop([w |-> w, addr |-> 0], eeprom_buffer)

(* Variant: the two characters of a word packed low byte first. *)
RECURSIVE write_string_loop_LowFirst(_, _)
write_string_loop_LowFirst(r, chars) ==
  IF chars[r.i + 1] = 0 THEN r.w
  ELSE LET word == U16(BitOr(chars[r.i + 1],
                             Shl(IF chars[r.i + 2] # 0 THEN chars[r.i + 2] ELSE 0,
                                 8)))
       IN  write_string_loop_LowFirst([w |-> eeprom_write(r.w, r.addr, word),
                                       i |-> r.i + 2,
                                       addr |-> U16(r.addr + 1)],
                                      chars)

(* print_buffer: printf("%04X ", eeprom_buffer[i]) for i = 0..0x3FF. *)
print_buffer(w, eeprom_buffer) ==
  [w EXCEPT !.log = w.log \o [i \in 1..NumWords |-> EvPrint(eeprom_buffer[i - 1])]]

(* buf[i] = v for i = 0..length-1 in ascending order, words[i + 1] being   *)
(* the value stored at index i.                                            *)
seq_store(w, words) ==
  [w EXCEPT !.buf = [a \in 0..(NumWords - 1) |->
                       IF a < Len(words) THEN words[a + 1] ELSE w.buf[a]],
            !.log = w.log \o [i \in 1..Len(words) |-> EvStore(i - 1, words[i])]]

(* ((uint16_t)(hi << 8)) | (lo << 1) & 0xFF | (lo >> 7) & 0x01: & binds    *)
(* tighter than |.                                                         *)
SeqLengthWord(hi, lo) ==
  U16(BitOr(BitOr(U16(Shl(hi, 8)), BitAnd(Shl(lo, 1), ByteMask)),
            BitAnd(Shr(lo, 7), 1)))

(* ((uint16_t)(hi << 8)) | lo *)
SeqRangeWord(hi, lo) == U16(BitOr(U16(Shl(hi, 8)), lo))

(* The part the two sequential reads share: deassert, delay, assert, the   *)
(* read command, one receive of 3 + (length - 1) * 2 bytes.                *)
seq_transfer(w, start_addr, length) ==
  LET w1 == cs_select(delay_250ns(cs_deselect(w)))
      w2 == spi_write_blocking(w1, Split16(ReadCmd(start_addr)))
  IN  spi_read_blocking(w2, 0, 3 + (length - 1) * 2)

eeprom_sequential_read_length(w, start_addr, length) ==
  IF length = 0 THEN w
  ELSE LET w3 == seq_transfer(w, start_addr, length)
           d  == w3.rxbuf
           words == [i \in 1..length |->
                       IF i = 1 THEN U16(ReadAlign(d))
                       ELSE SeqLengthWord(d[2 * i], d[2 * i + 1])]
       IN  cs_deselect(seq_store(w3, words))

(* length = end_addr - start_addr + 1, from the unmasked addresses. *)
eeprom_sequential_read_range(w, start_addr, end_addr) ==
  IF start_addr > end_addr THEN w
  ELSE LET length == end_addr - start_addr + 1
           w3 == seq_transfer(w, start_addr, length)
           d  == w3.rxbuf
           words == [i \in 1..length |->
                       IF i = 1 THEN U16(ReadAlign(d))
                       ELSE SeqRangeWord(d[2 * i], d[2 * i + 1])]
       IN  cs_deselect(seq_store(w3, words))

(* while (str[i] != '\0') of eeprom_write_string: r = [w, i, addr] is the   *)
(* loop's state, addr the running start_addr.  chars is the memory from     *)
(* the pointer str onwards, char being unsigned on the target: str[i] of    *)
(* the source is chars[i + 1] here.                                         *)
RECURSIVE write_string_loop(_, _)
write_string_loop(r, chars) ==
  IF chars[r.i + 1] = 0 THEN r.w
  ELSE LET word == U16(BitOr(Shl(chars[r.i + 1], 8),
                             IF chars[r.i + 2] # 0 THEN chars[r.i + 2] ELSE 0))
       IN  write_string_loop([w |-> eeprom_write(r.w, r.addr, word),
                              i |-> r.i + 2,
                              addr |-> U16(r.addr + 1)],
                             chars)

eeprom_write_string(w, start_addr, chars) ==
  write_string_loop([w |-> w, i |-> 0, addr |-> start_addr], chars)

(* Variant: no index kept back for the terminator. *)
read_string_room_NoReserve(i, max_len) == max_len = 0 \/ i < max_len

(* i < max_len - 1 in size_t: for max_len = 0 the right side is SIZE_MAX,   *)
(* which i does not reach.                                                  *)
read_string_room(i, max_len) == max_len = 0 \/ i < max_len - 1

(* str[i++] = c: the stores go to consecutive indices from 0, so w.str is   *)
(* the sequence of the characters stored and i its length.                 *)
read_string_put(w, c) == [w EXCEPT !.str = Append(w.str, c)]

(* (char)(word >> 8) and (char)(word & 0xFF), word being w.data. *)
read_string_hi(w) == U8(Shr(w.data, 8))

read_string_lo(w) == U8(BitAnd(w.data, ByteMask))

(* The two stores of one pass, i the index before them. *)
read_string_store(w, i, max_len) ==
  IF read_string_room(i + 1, max_len)
  THEN read_string_put(read_string_put(w, read_string_hi(w)), read_string_lo(w))
  ELSE read_string_put(w, read_string_hi(w))

(* while (i < max_len - 1) of eeprom_read_string: r = [w, i, addr] is the   *)
(* loop's state, addr the running start_addr; read_string_next is the      *)
(* break test at the end of a pass.                                        *)
RECURSIVE read_string_loop(_, _)
RECURSIVE read_string_next(_, _, _)
read_string_next(w, addr, max_len) ==
  IF read_string_hi(w) = 0 \/ read_string_lo(w) = 0 THEN w
  ELSE read_string_loop([w |-> w, i |-> Len(w.str), addr |-> U16(addr + 1)],
                        max_len)

read_string_loop(r, max_len) ==
  IF ~read_string_room(r.i, max_len) THEN r.w
  ELSE read_string_next(
         read_string_store(eeprom_read(r.w, r.addr), r.i, max_len),
         r.addr, max_len)

(* The loop, then str[i] = '\0'. *)
eeprom_read_string(w, start_addr, max_len) ==
  LET w1 == read_string_loop([w |-> w, i |-> 0, addr |-> start_addr], max_len)
  IN  [w1 EXCEPT !.str = Append(w1.str, 0), !.data = NoData]

----------------------------------------------------------------------------
(* The state machine: a caller invokes the public functions in any order. *)

(* Memory images the device may hold at power-up. *)
ErasedImage == [a \in 0..(NumWords - 1) |-> ErasedWord]

PatternImage == [a \in 0..(NumWords - 1) |-> (a * 257 + 32769) % 65536]

InitImages == {ErasedImage, PatternImage}

(* uint16_t save_buffer[0x400] has no initialiser: a word of the caller's  *)
(* array holds an indeterminate value until the first store into it.      *)
(* Indeterminate stands for that value, whatever the build leaves there,  *)
(* and is no 16-bit word.                                                  *)
Indeterminate == 0 - 2

IndeterminateImage == [a \in 0..(NumWords - 1) |-> Indeterminate]

(* Every word of the array has been stored. *)
Determinate(eeprom_buffer) ==
  \A a \in 0..(NumWords - 1) : eeprom_buffer[a] # Indeterminate

(* The array main hands over after its loops: the word i written to each  *)
(* address i, copied into the array by eeprom_copy, then doubled.          *)
DoubledImage == [a \in 0..(NumWords - 1) |-> (2 * a) % 65536]

(* The arrays a caller passes to eeprom_paste: main's array once every    *)
(* word of it has been stored, and the array of doubled addresses.  No    *)
(* caller in the source reads the array before eeprom_copy has filled it.  *)
PasteArrays == {b \in {buffer, DoubledImage} : Determinate(b)}

(* Bounds: calls in a run of BulkSpec, elements handed to                 *)
(* eeprom_write_buf, the max_len handed to eeprom_read_string.            *)
MaxCalls == 2

MaxBufLen == 3

MaxStrLen == 4

(* The array handed to eeprom_write_buf: 0x1234, 0x5678, 0x9ABC, ... *)
BufWords == [i \in 1..(MaxBufLen + 1) |-> (4660 + 17476 * (i - 1)) % 65536]

(* Arguments of the calls of Spec. *)
CallAddrs == {16, 17, 1023, 1040}

CallWords == {57005, 16386}

(* The world a call starts in; feed is what the data input line is forced *)
(* to deliver (empty: the device drives it).                              *)
World(feed) ==
  [cs |-> cs, dump_flag |-> dump_flag, dev |-> dev, log |-> <<>>,
   data |-> NoData, rxbuf |-> <<0, 0, 0>>, feed |-> feed,
   buf |-> buffer, str |-> <<>>, fault |-> 0]

(* The call c returned in world w. *)
Returned(w, c) ==
  /\ cs' = w.cs
  /\ dump_flag' = w.dump_flag
  /\ dev' = w.dev
  /\ log' = w.log
  /\ data' = w.data
  /\ buffer' = w.buf
  /\ str' = w.str
  /\ call' = c

Return(w, name, addr, d, feed) ==
  Returned(w, [name |-> name, addr |-> addr, data |-> d, feed |-> feed])

Init ==
  /\ cs = 1
  /\ dump_flag = 0
  /\ \E m \in InitImages : dev = DevPowerUp(m, 1)
  /\ log = <<>>
  /\ data = NoData
  /\ call = [name |-> "init", addr |-> 0, data |-> 0, feed |-> <<>>]
  /\ buffer = IndeterminateImage
  /\ str = <<>>
  /\ steps = 0

(* One action per public function; args are the arguments the caller may *)
(* pass, feeds what the data input line may be forced to deliver.         *)
CallWriteEnable ==
  Return(eeprom_write_enable(World(<<>>)), "eeprom_write_enable", 0, 0, <<>>)

CallWriteDisable ==
  Return(eeprom_write_disable(World(<<>>)), "eeprom_write_disable", 0, 0, <<>>)

CallRead(args) ==
  \E p \in args :
    Return(eeprom_read(World(p[2]), p[1]), "eeprom_read", p[1], 0, p[2])

CallWrite(args) ==
  \E p \in args :
    Return(eeprom_write(World(<<>>), p[1], p[2]), "eeprom_write",
           p[1], p[2], <<>>)

CallErase(args) ==
  \E a \in args :
    Return(eeprom_erase(World(<<>>), a), "eeprom_erase", a, 0, <<>>)

(* args: triples <<start_addr, buf, len>>. *)
CallWriteBuf(args) ==
  \E p \in args :
    Returned(eeprom_write_buf(World(<<>>), p[1], p[2], p[3]),
             [name |-> "eeprom_write_buf", addr |-> p[1], data |-> 0,
              feed |-> <<>>, buf |-> p[2], len |-> p[3]])

CallDump == Return(eeprom_dump(World(<<>>)), "eeprom_dump", 0, 0, <<>>)

(* The caller passes its array, which is buffer. *)
CallCopy == Return(eeprom_copy(World(<<>>)), "eeprom_copy", 0, 0, <<>>)

(* args: the arrays the caller may pass. *)
CallPaste(args) ==
  \E b \in args :
    Returned(eeprom_paste(World(<<>>), b),
             [name |-> "eeprom_paste", addr |-> 0, data |-> 0,
              feed |-> <<>>, buf |-> b])

(* args: pairs <<start_addr, chars>>. *)
CallWriteString(args) ==
  \E p \in args :
    Returned(eeprom_write_string(World(<<>>), p[1], p[2]),
             [name |-> "eeprom_write_string", addr |-> p[1], data |-> 0,
              feed |-> <<>>, chars |-> p[2]])

(* args: pairs <<start_addr, max_len>>. *)
CallReadString(args) ==
  \E p \in args :
    Returned(eeprom_read_string(World(<<>>), p[1], p[2]),
             [name |-> "eeprom_read_string", addr |-> p[1], data |-> 0,
              feed |-> <<>>, len |-> p[2]])

(* args: pairs <<start_addr, length>>; the caller passes its array. *)
CallSequentialReadLength(args) ==
  \E p \in args :
    Returned(eeprom_sequential_read_length(World(<<>>), p[1], p[2]),
             [name |-> "eeprom_sequential_read_length", addr |-> p[1],
              data |-> 0, feed |-> <<>>, len |-> p[2]])

(* args: pairs <<start_addr, end_addr>>. *)
CallSequentialReadRange(args) ==
  \E p \in args :
    Returned(eeprom_sequential_read_range(World(<<>>), p[1], p[2]),
             [name |-> "eeprom_sequential_read_range", addr |-> p[1],
              data |-> 0, feed |-> <<>>, last |-> p[2]])

CallPrintBuffer ==
  Return(print_buffer(World(<<>>), buffer), "print_buffer", 0, 0, <<>>)

WriteEnable == CallWriteEnable /\ UNCHANGED steps

WriteDisable == CallWriteDisable /\ UNCHANGED steps

Read == CallRead(CallAddrs \X {<<>>}) /\ UNCHANGED steps

Write == CallWrite(CallAddrs \X CallWords) /\ UNCHANGED steps

Erase == CallErase(CallAddrs) /\ UNCHANGED steps

Next == WriteEnable \/ WriteDisable \/ Read \/ Write \/ Erase

Spec == Init /\ [][Next]_vars

----------------------------------------------------------------------------
(* Framing over wide arguments: one call from each power-up state. *)

(* Every 16-bit address that aliases one of the base addresses. *)
FrameBase == {0, 16, 17, 341, 682, 1022, 1023} \cup {Pow2(i) : i \in 0..9}

FrameAddrs == {a + 1024 * k : a \in FrameBase, k \in 0..63}

FrameWords ==
  {0, 57005, 21845, 43690, 65535} \cup {Pow2(i) : i \in 0..15}

FrameBytes == {0, 127, 165, 255} \cup {Pow2(i) : i \in 0..7}

FrameFeeds == {<<x, y, z>> : x \in FrameBytes, y \in FrameBytes, z \in FrameBytes}

FrameWriteArgs ==
  (FrameAddrs \X {0, 57005, 65535}) \cup (FrameBase \X FrameWords)
    \cup ({1040, 65535} \X FrameWords)

FrameReadArgs ==
  (FrameAddrs \X {<<>>}) \cup ({0, 16, 1023, 65535} \X FrameFeeds)

FrameWriteEnable == call.name = "init" /\ CallWriteEnable /\ UNCHANGED steps

FrameWriteDisable == call.name = "init" /\ CallWriteDisable /\ UNCHANGED steps

FrameRead == call.name = "init" /\ CallRead(FrameReadArgs) /\ UNCHANGED steps

FrameWrite == call.name = "init" /\ CallWrite(FrameWriteArgs) /\ UNCHANGED steps

FrameErase == call.name = "init" /\ CallErase(FrameAddrs) /\ UNCHANGED steps

FrameWriteBufArgs ==
  {<<a, BufWords, n>> : a \in FrameAddrs, n \in 0..MaxBufLen}

FrameWriteBuf ==
  call.name = "init" /\ CallWriteBuf(FrameWriteBufArgs) /\ UNCHANGED steps

(* "Hi", "Hi N" and a 3-character text with a character above 0x7F. *)
FrameStrings ==
  {<<72, 105, 0, 0>>, <<72, 105, 32, 78, 0, 0>>, <<200, 98, 99, 0, 0, 0>>}

FrameWriteString ==
  /\ call.name = "init"
  /\ CallWriteString(FrameAddrs \X FrameStrings)
  /\ UNCHANGED steps

(* Some word of the memory m has a zero byte in its high or low half. *)
ZeroByteWord(m) ==
  \E a \in 0..(NumWords - 1) : m[a] \div 256 = 0 \/ m[a] % 256 = 0

(* eeprom_read_string with max_len from 0 on.  With max_len = 0 the loop   *)
(* of the call ends only at a word with a zero byte: over a memory holding *)
(* none the call does not return.                                          *)
FrameReadString ==
  /\ call.name = "init"
  /\ \E a \in {1021, 1022, 1023, 2047}, n \in 0..MaxStrLen :
       /\ n = 0 => ZeroByteWord(dev.mem)
       /\ CallReadString({<<a, n>>})
  /\ UNCHANGED steps

FrameNext ==
  \/ FrameWriteEnable \/ FrameWriteDisable \/ FrameRead \/ FrameWrite
  \/ FrameErase \/ FrameWriteBuf \/ FrameWriteString \/ FrameReadString

FrameSpec == Init /\ [][FrameNext]_vars

----------------------------------------------------------------------------
(* The encodings over every device address: one call from each power-up   *)
(* state.                                                                  *)

EncodeAddrs == 0..(NumWords - 1)

EncodeWords == {0, 1, 57005, 65535}

EncodeWriteEnable == call.name = "init" /\ CallWriteEnable /\ UNCHANGED steps

EncodeWriteDisable == call.name = "init" /\ CallWriteDisable /\ UNCHANGED steps

EncodeRead ==
  call.name = "init" /\ CallRead(EncodeAddrs \X {<<>>}) /\ UNCHANGED steps

EncodeWrite ==
  /\ call.name = "init"
  /\ CallWrite((EncodeAddrs \X EncodeWords) \cup (FrameBase \X FrameWords))
  /\ UNCHANGED steps

EncodeErase == call.name = "init" /\ CallErase(EncodeAddrs) /\ UNCHANGED steps

EncodeNext ==
  \/ EncodeWriteEnable \/ EncodeWriteDisable \/ EncodeRead \/ EncodeWrite
  \/ EncodeErase

EncodeSpec == Init /\ [][EncodeNext]_vars

----------------------------------------------------------------------------
(* Every public function, the long-running ones included: at most MaxCalls *)
(* calls from each power-up state.  The device keeps its enable latch      *)
(* while it is powered, so the driver may start with the latch set.        *)

(* What the memory at str may hold: "", "Hi", "A" with the byte 'z' behind *)
(* its terminator, "A" with a zero byte behind it, and a 3-character text *)
(* whose first character is 0xC8.                                         *)
BulkStrings ==
  {<<0, 0>>, <<72, 105, 0, 0>>, <<65, 0, 122, 0, 0>>, <<65, 0, 0>>,
   <<200, 98, 99, 0, 0, 0>>}

BulkInit ==
  /\ cs = 1
  /\ dump_flag = 0
  /\ \E m \in InitImages, l \in BOOLEAN :
       dev = [DevPowerUp(m, 1) EXCEPT !.wen = l]
  /\ log = <<>>
  /\ data = NoData
  /\ call = [name |-> "init", addr |-> 0, data |-> 0, feed |-> <<>>]
  /\ buffer = IndeterminateImage
  /\ str = <<>>
  /\ steps = 0

(* One more call is made. *)
Step == steps < MaxCalls /\ steps' = steps + 1

BulkWriteEnable == Step /\ CallWriteEnable

BulkWriteDisable == Step /\ CallWriteDisable

BulkRead == Step /\ CallRead({1023} \X {<<>>})

BulkWrite == Step /\ CallWrite({<<1023, 57005>>})

BulkErase == Step /\ CallErase({1023})

BulkWriteBuf ==
  Step /\ CallWriteBuf({<<65535, BufWords, n>> : n \in 0..MaxBufLen})

BulkWriteString == Step /\ CallWriteString({1023} \X BulkStrings)

BulkReadString == Step /\ CallReadString({1023} \X (1..MaxStrLen))

(* The 1024-transaction calls are made first, eeprom_paste also directly   *)
(* after eeprom_copy, then also with the array just filled.                *)
BulkDump == Step /\ call.name = "init" /\ CallDump

BulkCopy == Step /\ call.name = "init" /\ CallCopy

BulkPaste ==
  /\ Step
  /\ call.name \in {"init", "eeprom_copy"}
  /\ CallPaste(PasteArrays)

BulkSequentialReadLength ==
  Step /\ CallSequentialReadLength({1022} \X {0, 1, 4})

BulkSequentialReadRange ==
  Step /\ CallSequentialReadRange({<<1022, 1023>>, <<17, 16>>})

BulkPrintBuffer == Step /\ CallPrintBuffer

BulkNext ==
  \/ BulkWriteEnable \/ BulkWriteDisable \/ BulkRead \/ BulkWrite
  \/ BulkErase \/ BulkWriteBuf \/ BulkDump \/ BulkCopy \/ BulkPaste
  \/ BulkWriteString \/ BulkReadString \/ BulkSequentialReadLength
  \/ BulkSequentialReadRange \/ BulkPrintBuffer

BulkSpec == BulkInit /\ [][BulkNext]_vars

----------------------------------------------------------------------------
(* The eeprom_write of the older snapshot beside the present one: one call *)
(* from each power-up state, the enable latch set or not.                  *)

HistoryArgs == (FrameBase \X FrameWords) \cup ({1040, 65535} \X FrameWords)

HistoryOldWrite ==
  /\ call.name = "init"
  /\ \E p \in HistoryArgs :
       Return(part000_eeprom_write(World(<<>>), p[1], p[2]),
              "part000_eeprom_write", p[1], p[2], <<>>)
  /\ UNCHANGED steps

HistoryWrite == call.name = "init" /\ CallWrite(HistoryArgs) /\ UNCHANGED steps

HistoryNext == HistoryOldWrite \/ HistoryWrite

HistorySpec == BulkInit /\ [][HistoryNext]_vars

----------------------------------------------------------------------------
(* A bus transfer that reports a fault: one call from each power-up state, *)
(* its k-th bus transfer reporting the fault.                              *)

(* Bound: how far into a call the faulting transfer lies. *)
MaxFault == 3

FaultAddrs == {0, 16, 1023, 65535}

FaultWorld(k) == [World(<<>>) EXCEPT !.fault = k]

(* The call name(addr, d), whose k-th transfer was to fault, returned in w. *)
FaultReturn(w, name, addr, d, k) ==
  /\ Returned(w, [name |-> name, addr |-> addr, data |-> d, feed |-> <<>>,
                  fault |-> k])
  /\ UNCHANGED steps

FaultWriteEnable ==
  /\ call.name = "init"
  /\ FaultReturn(eeprom_write_enable(FaultWorld(1)), "eeprom_write_enable",
                 0, 0, 1)

FaultWriteDisable ==
  /\ call.name = "init"
  /\ FaultReturn(eeprom_write_disable(FaultWorld(1)), "eeprom_write_disable",
                   0, 0, 1)

FaultRead ==
  /\ call.name = "init"
  /\ \E a \in FaultAddrs, k \in 1..2 :
         FaultReturn(eeprom_read(FaultWorld(k), a), "eeprom_read", a, 0, k)

FaultWrite ==
  /\ call.name = "init"
  /\ \E a \in FaultAddrs, d \in CallWords :
         FaultReturn(eeprom_write(FaultWorld(1), a, d), "eeprom_write", a, d, 1)

FaultErase ==
  /\ call.name = "init"
  /\ \E a \in FaultAddrs :
         FaultReturn(eeprom_erase(FaultWorld(1), a), "eeprom_erase", a, 0, 1)

FaultWriteBuf ==
  /\ call.name = "init"
  /\ \E a \in FaultAddrs, n \in 1..MaxBufLen :
         \E k \in 1..n :
           FaultReturn(eeprom_write_buf(FaultWorld(k), a, BufWords, n),
                       "eeprom_write_buf", a, n, k)

FaultDump ==
  /\ call.name = "init"
  /\ \E k \in 1..MaxFault :
         FaultReturn(eeprom_dump(FaultWorld(k)), "eeprom_dump", 0, 0, k)

FaultCopy ==
  /\ call.name = "init"
  /\ \E k \in 1..MaxFault :
         FaultReturn(eeprom_copy(FaultWorld(k)), "eeprom_copy", 0, 0, k)

FaultPaste ==
  /\ call.name = "init"
  /\ \E k \in 1..MaxFault :
         FaultReturn(eeprom_paste(FaultWorld(k), DoubledImage),
                     "eeprom_paste", 0, 0, k)

FaultWriteString ==
  /\ call.name = "init"
  /\ \E a \in FaultAddrs, k \in 1..2 :
         FaultReturn(eeprom_write_string(FaultWorld(k), a, <<72, 105, 32, 78, 0, 0>>),
                     "eeprom_write_string", a, 0, k)

FaultReadString ==
  /\ call.name = "init"
  /\ \E a \in FaultAddrs, n \in 2..MaxStrLen :
         \E k \in 1..MaxFault :
           FaultReturn(eeprom_read_string(FaultWorld(k), a, n),
                       "eeprom_read_string", a, n, k)

FaultNext ==
  \/ FaultWriteEnable \/ FaultWriteDisable \/ FaultRead \/ FaultWrite
  \/ FaultErase \/ FaultWriteBuf \/ FaultDump \/ FaultCopy \/ FaultPaste
  \/ FaultWriteString \/ FaultReadString

FaultSpec == Init /\ [][FaultNext]_vars

----------------------------------------------------------------------------
(* Reading the log of a call *)

(* The events of kind k, in order. *)
Events(l, k) == SelectSeq(l, LAMBDA e : e.k = k)

(* The byte sequences transmitted, one per bus write, in order. *)
TxFrames(l) == [i \in 1..Len(Events(l, "tx")) |-> Events(l, "tx")[i].bytes]

(* The byte sequences received, one per bus read, in order. *)
RxFrames(l) == [i \in 1..Len(Events(l, "rx")) |-> Events(l, "rx")[i].bytes]

(* The n bytes of the number v, most significant byte first. *)
BytesMSB(v, n) == [i \in 1..n |-> (v \div (256 ^ (n - i))) % 256]

(* The positions of the log holding events of kind k. *)
Positions(l, k) == {i \in 1..Len(l) : l[i].k = k}

----------------------------------------------------------------------------
(* Claims *)

(* C1: for every 16-bit addr and data, eeprom_write transmits exactly the  *)
(* 4 bytes, most significant first, of                                    *)
(* (0b101 << 26) | ((addr & 0x3FF) << 16) | data; bits [31:29] are zero.  *)
C1_WriteFrame ==
  call.name = "eeprom_write" =>
    /\ TxFrames(log) =
         <<BytesMSB(5 * 67108864 + (call.addr % 1024) * 65536 + call.data, 4)>>
    /\ TxFrames(log)[1][1] < 32
    /\ TxFrames(log)[1][1] \div 4 = 5
    /\ (TxFrames(log)[1][1] % 4) * 256 + TxFrames(log)[1][2] = call.addr % 1024
    /\ TxFrames(log)[1][3] * 256 + TxFrames(log)[1][4] = call.data

C1_Witness ==
  /\ call.name = "eeprom_write"
  /\ call.addr = 65535
  /\ call.data = 43690
  /\ TxFrames(log) = <<(<<23, 255, 170, 170>>)>>

(* C2: for every triple of received bytes (d0, d1, d2), eeprom_read stores *)
(* (((d0 << 16) | (d1 << 8) | d2) >> 7) & 0xFFFF: the top bit of d0 and    *)
(* the low 7 bits of d2 do not reach the result, the 16 bits between them  *)
(* do.                                                                     *)
C2_ReadAlign ==
  call.name = "eeprom_read" =>
    LET rx == RxFrames(log)[1]
    IN  /\ data = ((rx[1] * 65536 + rx[2] * 256 + rx[3]) \div 128) % 65536
        /\ data = (rx[1] % 128) * 512 + rx[2] * 2 + (rx[3] \div 128)

C2_Witness ==
  /\ call.name = "eeprom_read"
  /\ RxFrames(log) = <<(<<255, 1, 127>>)>>
  /\ data = 65026

(* C3: against the device, with the enable latch set by                    *)
(* eeprom_write_enable, eeprom_write(addr, data) followed by               *)
(* eeprom_read(addr) delivers exactly data.                                *)
C3_RoundTrip ==
  [][(/\ call.name = "eeprom_write"
      /\ dev.wen
      /\ call'.name = "eeprom_read"
      /\ call'.addr % 1024 = call.addr % 1024) => data' = call.data]_vars

C3_Witness ==
  /\ call.name = "eeprom_read"
  /\ call.addr = 16
  /\ dev.wen
  /\ data = 16386
  /\ dev.mem[16] = 16386
  /\ dev.mem[17] = 57005

(* What the call name(addr, d) transmits, started in the present state. *)
Sent(name, addr, d) ==
  TxFrames((CASE name = "eeprom_read" -> eeprom_read(World(<<>>), addr)
              [] name = "eeprom_write" -> eeprom_write(World(<<>>), addr, d)
              [] name = "eeprom_erase" -> eeprom_erase(World(<<>>), addr)
              [] name = "eeprom_write_enable" -> eeprom_write_enable(World(<<>>))
              [] OTHER -> eeprom_write_disable(World(<<>>))).log)

(* C4: for eeprom_read, eeprom_write and eeprom_erase, the bytes           *)
(* transmitted for address addr + 1024*k are those transmitted for addr    *)
(* (same data for write), for every addr in 0..1023 and every k with       *)
(* addr + 1024*k <= 65535.                                                 *)
C4_AddressMasking ==
  call.name \in {"eeprom_read", "eeprom_write", "eeprom_erase"} =>
    TxFrames(log) = Sent(call.name, call.addr % 1024, call.data)

C4_Witness ==
  /\ call.name = "eeprom_erase"
  /\ call.addr = 1023 + 1024 * 63
  /\ TxFrames(log) = <<(<<255, 248>>)>>
  /\ Sent("eeprom_erase", 1023, 0) = <<(<<255, 248>>)>>

(* C5 as stated: eeprom_write(0x10, 0xDEAD) transmits 0x94 0x10 0xDE 0xAD. *)
C5_Stated ==
  (call.name = "eeprom_write" /\ call.addr = 16 /\ call.data = 57005) =>
    TxFrames(log) = <<(<<148, 16, 222, 173>>)>>

(* C5: eeprom_write(0x10, 0xDEAD) transmits 0x14 0x10 0xDE 0xAD, the       *)
(* MSB-first byte split of (0b101 << 26) | (0x10 << 16) | 0xDEAD.          *)
C5_WriteScenario ==
  (call.name = "eeprom_write" /\ call.addr = 16 /\ call.data = 57005) =>
    /\ TxFrames(log) = <<(<<20, 16, 222, 173>>)>>
    /\ BytesMSB(5 * 67108864 + 16 * 65536 + 57005, 4) = <<20, 16, 222, 173>>

C5_Witness ==
  /\ call.name = "eeprom_write"
  /\ call.addr = 16
  /\ call.data = 57005
  /\ Len(TxFrames(log)) = 1

(* C6: for every 16-bit addr, eeprom_erase transmits exactly the 2 bytes,  *)
(* MSB first, of (0b111 << 13) | ((addr & 0x3FF) << 3), the low 3 bits     *)
(* zero; eeprom_erase(0x11) transmits 0xE0 0x88.                           *)
C6_EraseFrame ==
  call.name = "eeprom_erase" =>
    /\ TxFrames(log) = <<BytesMSB(7 * 8192 + (call.addr % 1024) * 8, 2)>>
    /\ TxFrames(log)[1][1] \div 32 = 7
    /\ TxFrames(log)[1][2] % 8 = 0
    /\ (TxFrames(log)[1][1] % 32) * 32 + (TxFrames(log)[1][2] \div 8)
         = call.addr % 1024
    /\ call.addr = 17 => TxFrames(log) = <<(<<224, 136>>)>>

C6_Witness ==
  /\ call.name = "eeprom_erase"
  /\ call.addr = 17
  /\ TxFrames(log) = <<(<<224, 136>>)>>

(* C7: eeprom_write_enable always transmits 0x98 0x00 and                  *)
(* eeprom_write_disable always 0x80 0x00, whatever was called before.      *)
C7_EnableDisableFrames ==
  /\ call.name = "eeprom_write_enable" => TxFrames(log) = <<(<<152, 0>>)>>
  /\ call.name = "eeprom_write_disable" => TxFrames(log) = <<(<<128, 0>>)>>

C7_Witness ==
  /\ call.name = "eeprom_write_enable"
  /\ dev.mem[1023] = 57005
  /\ dev.mem[16] = ErasedWord
  /\ dev.wen
  /\ TxFrames(log) = <<(<<152, 0>>)>>

(* C8: for every 16-bit addr, the command phase of eeprom_read transmits   *)
(* exactly the 2 bytes, MSB first, of (0b110 << 10) | (addr & 0x3FF): the  *)
(* masked address directly follows the opcode and ends the frame.          *)
C8_ReadCommand ==
  call.name = "eeprom_read" =>
    /\ TxFrames(log) = <<BytesMSB(6 * 1024 + (call.addr % 1024), 2)>>
    /\ TxFrames(log)[1][1] \div 4 = 6
    /\ (TxFrames(log)[1][1] % 4) * 256 + TxFrames(log)[1][2] = call.addr % 1024

C8_Witness ==
  /\ call.name = "eeprom_read"
  /\ call.addr = 341 + 1024
  /\ TxFrames(log) = <<(<<25, 85>>)>>

(* C9 as stated: the first bit clocked out by eeprom_read is 1. *)
C9_Stated ==
  call.name = "eeprom_read" => TxFrames(log)[1][1] >= 128

(* C9: the Read command is right-justified in its 16-bit field: bits       *)
(* [15:13] are 0 and the first bit of the opcode is bit 12, so the first   *)
(* three bits clocked out by eeprom_read are 0 and the fourth is 1; the    *)
(* first bit clocked out by erase, enable and disable is 1.                *)
C9_ReadRightJustified ==
  /\ call.name = "eeprom_read" => TxFrames(log)[1][1] \div 16 = 1
  /\ call.name \in {"eeprom_erase", "eeprom_write_enable",
                    "eeprom_write_disable"} => TxFrames(log)[1][1] >= 128

C9_Witness ==
  /\ call.name = "eeprom_read"
  /\ call.addr = 65535
  /\ TxFrames(log) = <<(<<27, 255>>)>>

(* C10: enable, disable and erase each perform exactly one bus write of 2  *)
(* bytes and no bus read; write exactly one bus write of 4 bytes and no    *)
(* bus read; read exactly one bus write of 2 bytes directly followed by    *)
(* exactly one bus read of 3 bytes, no chip-select event between them.     *)
C10_TransferCounts ==
  LET tx == Events(log, "tx")
      rx == Events(log, "rx")
  IN  /\ call.name \in {"eeprom_write_enable", "eeprom_write_disable",
                        "eeprom_erase"} =>
           Len(tx) = 1 /\ tx[1].n = 2 /\ Len(tx[1].bytes) = 2 /\ Len(rx) = 0
      /\ call.name = "eeprom_write" =>
           Len(tx) = 1 /\ tx[1].n = 4 /\ Len(tx[1].bytes) = 4 /\ Len(rx) = 0
      /\ call.name = "eeprom_read" =>
           /\ Len(tx) = 1 /\ tx[1].n = 2 /\ Len(tx[1].bytes) = 2
           /\ Len(rx) = 1 /\ rx[1].n = 3 /\ Len(rx[1].bytes) = 3
           /\ \E i \in Positions(log, "tx") : Positions(log, "rx") = {i + 1}

C10_Witness ==
  /\ call.name = "eeprom_read"
  /\ Len(log) = 10
  /\ log[5].k = "tx"
  /\ log[6].k = "rx"
  /\ log[7].k = "cs"

(* C11: in every call of a public function, the per-address reads inside   *)
(* eeprom_dump and eeprom_copy included, every command frame is preceded   *)
(* by a chip-select deassert (0), its delay (the sequential reads add a    *)
(* second delay), a chip-select assert (1) and its delay, with nothing     *)
(* else between them and the frame, so that no bus transfer lies between   *)
(* and the line goes 0 then 1 between any two command frames.              *)
C11_SelectBeforeFrame ==
  \A i \in Positions(log, "tx") :
    /\ i >= 5
    /\ log[i - 2] = EvCs(1)
    /\ log[i - 1] = EvDelay(CsDelayNs)
    /\ \E j \in {i - 5, i - 4} :
         /\ j >= 1
         /\ log[j] = EvCs(0)
         /\ \A k \in (j + 1)..(i - 3) : log[k] = EvDelay(CsDelayNs)

C11_Witness ==
  /\ call.name = "eeprom_dump"
  /\ Cardinality(Positions(log, "tx")) = 1024
  /\ log[6].k = "rx"
  /\ log[7].k = "print"
  /\ log[8] = EvCs(0)
  /\ log[10] = EvCs(1)
  /\ log[12].k = "tx"

(* The public functions that leave the line as their last eeprom_read or   *)
(* eeprom_write left it.                                                   *)
ReselectingCalls ==
  {"eeprom_read", "eeprom_write", "eeprom_write_buf", "eeprom_dump",
   "eeprom_copy", "eeprom_paste", "eeprom_write_string", "eeprom_read_string"}

DeselectingCalls ==
  {"eeprom_write_enable", "eeprom_write_disable", "eeprom_erase"}

(* The call made a bus transfer. *)
TouchedBus == Positions(log, "tx") # {}

(* C12 as stated: whenever a public function that touched the bus returns, *)
(* the chip-select line is deasserted (level 0).                           *)
C12_Stated ==
  (call.name \in ReselectingCalls \cup DeselectingCalls /\ TouchedBus) =>
    cs = 0

(* C12: when eeprom_write_enable, eeprom_write_disable or eeprom_erase     *)
(* returns, the chip-select line is deasserted (0); when eeprom_read,      *)
(* eeprom_write, eeprom_write_buf, eeprom_dump, eeprom_copy, eeprom_paste, *)
(* eeprom_write_string or eeprom_read_string returns after a bus transfer, *)
(* the line is asserted (1).  The device's input follows the line.         *)
C12_LineOnReturn ==
  /\ call.name \in DeselectingCalls => TouchedBus /\ cs = 0
  /\ (call.name \in ReselectingCalls /\ TouchedBus) => cs = 1
  /\ (call.name \in ReselectingCalls /\ ~TouchedBus) => log = <<>>
  /\ dev.cs = cs

C12_Witness ==
  /\ call.name = "eeprom_paste"
  /\ Cardinality(Positions(log, "tx")) = 1024
  /\ log[Len(log) - 1] = EvCs(1)
  /\ cs = 1

(* The events of cs_deselect followed by cs_select. *)
Reselect == <<EvCs(0), EvDelay(CsDelayNs), EvCs(1), EvDelay(CsDelayNs)>>

(* The events from position i of the log to position j. *)
Slice(l, i, j) == IF j > Len(l) THEN SubSeq(l, i, Len(l)) ELSE SubSeq(l, i, j)

(* The position of the last bus transfer of the log (0: none). *)
RECURSIVE LastBus(_, _)
LastBus(l, i) ==
  IF i = 0 THEN 0
  ELSE IF l[i].k \in {"tx", "rx"} THEN i
  ELSE LastBus(l, i - 1)

(* C13: eeprom_read outside eeprom_dump and eeprom_copy, and eeprom_write, *)
(* end with exactly the chip-select events deassert then assert, after     *)
(* their last bus transfer (eeprom_write: after its settle delay), with no *)
(* bus transfer between the two.                                           *)
C13_ClosingReselect ==
  /\ call.name = "eeprom_read" =>
        /\ LastBus(log, Len(log)) = Len(log) - 4
        /\ log[Len(log) - 4].k = "rx"
        /\ Slice(log, Len(log) - 3, Len(log)) = Reselect
  /\ call.name = "eeprom_write" =>
        /\ LastBus(log, Len(log)) = Len(log) - 5
        /\ log[Len(log) - 5].k = "tx"
        /\ log[Len(log) - 4] = EvSleep(WriteSettleMs)
        /\ Slice(log, Len(log) - 3, Len(log)) = Reselect
  /\ call.name \in ReselectingCalls \ {"eeprom_dump", "eeprom_copy"} =>
        /\ \A i \in Positions(log, "rx") : Slice(log, i + 1, i + 4) = Reselect
        /\ \A i \in Positions(log, "sleep_ms") :
             log[i].n = WriteSettleMs => Slice(log, i + 1, i + 4) = Reselect

C13_Witness ==
  /\ call.name = "eeprom_read"
  /\ Len(log) = 10
  /\ log[6].k = "rx"
  /\ log[7] = EvCs(0)
  /\ log[9] = EvCs(1)
  /\ cs = 1

(* The level of the line just before event i of the log, as far as the log *)
(* tells (NoData: no chip-select event before i).                          *)
RECURSIVE LevelBefore(_, _)
LevelBefore(l, i) ==
  IF i <= 1 THEN NoData
  ELSE IF l[i - 1].k = "cs" THEN l[i - 1].n
  ELSE LevelBefore(l, i - 1)

(* C14: in eeprom_write the 7 ms settle delay starts after the 4-byte      *)
(* transfer and has finished before the closing chip-select deassert; the  *)
(* line is asserted during the whole delay.                                *)
C14_WriteSettle ==
  /\ \A i \in Positions(log, "sleep_ms") :
       log[i].n = WriteSettleMs =>
         /\ i > 1 /\ i < Len(log)
         /\ log[i - 1].k = "tx" /\ log[i - 1].n = 4
         /\ LevelBefore(log, i) = 1
         /\ log[i + 1] = EvCs(0)
  /\ call.name = "eeprom_write" =>
       /\ Positions(log, "sleep_ms") = {6}
       /\ log[6] = EvSleep(WriteSettleMs)
       /\ \A j \in Positions(log, "cs") : j > 6 /\ log[j].n = 0 => j = 7

C14_Witness ==
  /\ call.name = "eeprom_write"
  /\ log[5].k = "tx"
  /\ log[6] = EvSleep(7)
  /\ log[7] = EvCs(0)
  /\ LevelBefore(log, 6) = 1

(* C15 as stated: in eeprom_erase the 4 ms settle delay starts after the   *)
(* 2-byte transfer and has finished before the closing chip-select         *)
(* deassert.                                                               *)
C15_Stated ==
  call.name = "eeprom_erase" =>
    \E s \in Positions(log, "sleep_ms") :
      /\ log[s] = EvSleep(EraseSettleMs)
      /\ \E t \in Positions(log, "tx") : t < s /\ log[t].n = 2
      /\ \E c \in Positions(log, "cs") : c > s /\ log[c].n = 0

(* C15: in eeprom_erase the 4 ms settle delay starts after the 2-byte      *)
(* transfer and after the closing chip-select deassert and its delay: the  *)
(* line is deasserted (0) during the whole settle delay, which is the last *)
(* event of the call.                                                      *)
C15_EraseSettle ==
  call.name = "eeprom_erase" =>
    /\ Len(log) = 8
    /\ log[5].k = "tx" /\ log[5].n = 2
    /\ log[6] = EvCs(0)
    /\ log[7] = EvDelay(CsDelayNs)
    /\ log[8] = EvSleep(EraseSettleMs)
    /\ Positions(log, "sleep_ms") = {8}
    /\ LevelBefore(log, 8) = 0
    /\ cs = 0

C15_Witness ==
  /\ call.name = "eeprom_erase"
  /\ log[5].k = "tx"
  /\ log[6] = EvCs(0)
  /\ log[8] = EvSleep(4)
  /\ cs = 0

(* The public functions that change words of the device. *)
WritingCalls ==
  {"eeprom_write", "eeprom_erase", "eeprom_write_buf", "eeprom_paste",
   "eeprom_write_string"}

(* The frames of eeprom_write_enable and eeprom_write_disable. *)
EnableFrame == <<152, 0>>

DisableFrame == <<128, 0>>

(* The world a call starts in when the device's enable latch is l. *)
WorldLatched(l) == [World(<<>>) EXCEPT !.dev.wen = l]

(* What the writing call c transmits when started with the latch at l. *)
SentLatched(c, l) ==
  TxFrames((CASE c.name = "eeprom_write" ->
                   eeprom_write(WorldLatched(l), c.addr, c.data)
              [] c.name = "eeprom_erase" ->
                   eeprom_erase(WorldLatched(l), c.addr)
              [] c.name = "eeprom_write_buf" ->
                   eeprom_write_buf(WorldLatched(l), c.addr, c.buf, c.len)
              [] c.name = "eeprom_paste" ->
                   eeprom_paste(WorldLatched(l), c.buf)
              [] OTHER ->
                   eeprom_write_string(WorldLatched(l), c.addr, c.chars)).log)

(* A step that keeps the enable frame to eeprom_write_enable. *)
NoAutoEnableStep ==
  /\ call'.name \in WritingCalls =>
       /\ \A i \in Positions(log', "tx") :
            log'[i].bytes \notin {EnableFrame, DisableFrame}
       /\ dev'.wen = dev.wen
       /\ \A l \in BOOLEAN : SentLatched(call', l) = TxFrames(log')
  /\ call'.name # "eeprom_write_enable" =>
       \A i \in Positions(log', "tx") : log'[i].bytes # EnableFrame
  /\ call'.name = "eeprom_write_enable" =>
       TxFrames(log') = <<EnableFrame>>

(* C16: eeprom_write, eeprom_erase, eeprom_write_buf, eeprom_paste and     *)
(* eeprom_write_string never transmit the enable frame 0x98 0x00 or the    *)
(* disable frame 0x80 0x00 and leave the device's enable latch as it was;  *)
(* what they transmit does not depend on the latch (the driver keeps no    *)
(* copy of it); only eeprom_write_enable transmits the enable frame.       *)
C16_NoAutoEnable == [][NoAutoEnableStep]_vars

C16_Witness ==
  /\ call.name = "eeprom_erase"
  /\ call.addr = 1023
  /\ ~dev.wen
  /\ TxFrames(log) = <<(<<255, 248>>)>>
  /\ dev.mem[1023] = 33536

(* The 2 bytes of the read frame for address a of 0..1023. *)
ReadFrame(a) == <<24 + (a \div 256), a % 256>>

(* The 4 bytes of the write frame for address a of 0..1023 and word d. *)
WriteFrame(a, d) == BytesMSB(5 * 67108864 + a * 65536 + d, 4)

(* The word carried by the 3 received bytes rx. *)
Decoded(rx) == (rx[1] % 128) * 512 + rx[2] * 2 + (rx[3] \div 128)

(* C17: eeprom_dump returns, having issued exactly 1024 read transactions  *)
(* with the addresses 0..1023 in ascending order, each once, and no write, *)
(* erase, enable or disable frame; it reports the word of every address    *)
(* in that order, 0xFFFF throughout over an all-erased device.             *)
C17_DumpReads ==
  call.name = "eeprom_dump" =>
    /\ TxFrames(log) = [i \in 1..1024 |-> ReadFrame(i - 1)]
    /\ Len(RxFrames(log)) = 1024
    /\ Len(log) = 7 * 1024
    /\ \A i \in Positions(log, "tx") : log[i + 1].k = "rx" /\ log[i + 1].n = 3
    /\ Events(log, "print") = [i \in 1..1024 |-> EvPrint(dev.mem[i - 1])]
    /\ dev.mem = ErasedImage =>
         \A i \in Positions(log, "print") : log[i].n = 65535
    /\ dump_flag = 0

C17_Witness ==
  /\ call.name = "eeprom_dump"
  /\ dev.mem = ErasedImage
  /\ Len(Events(log, "print")) = 1024
  /\ log[7 * 1024] = EvPrint(65535)
  /\ log[7 * 1024 - 2] = EvTx(<<27, 255>>)

(* The chip-select and bus events of a log. *)
LineAndBus(l) ==
  SelectSeq(l, LAMBDA e : e.k \in {"cs", "delay_ns", "sleep_ms", "tx", "rx"})

(* A step of eeprom_copy fills the array from the device. *)
CopyStep ==
  call'.name = "eeprom_copy" =>
    /\ Events(log', "store") =
         [i \in 1..1024 |-> EvStore(i - 1, dev.mem[i - 1])]
    /\ buffer' = dev.mem
    /\ \A a \in 0..1023 : buffer'[a] = Decoded(RxFrames(log')[a + 1])
    /\ LineAndBus(log') = LineAndBus(eeprom_dump(World(<<>>)).log)
    /\ dev'.mem = dev.mem
    /\ dump_flag' = 0

(* C18: when eeprom_copy returns, every one of the 1024 entries of the     *)
(* array has been written exactly once, entry a holding the word decoded   *)
(* from the read for address a, which is the device's word at a;           *)
(* eeprom_copy makes the chip-select and bus events of eeprom_dump and     *)
(* leaves the device's memory as it was.                                   *)
C18_CopyFills == [][CopyStep]_vars

C18_Witness ==
  /\ call.name = "eeprom_copy"
  /\ dev.mem = PatternImage
  /\ buffer = PatternImage
  /\ log[7 * 1024] = EvStore(1023, 33536)

(* A step of eeprom_copy, or of eeprom_paste made directly after it with   *)
(* the array it filled, leaves every word of the device as it was.         *)
CopyPasteStep ==
  /\ call'.name = "eeprom_copy" => dev'.mem = dev.mem /\ dev'.wen = dev.wen
  /\ (call.name = "eeprom_copy" /\ call'.name = "eeprom_paste"
        /\ call'.buf = buffer) =>
       /\ dev'.mem = dev.mem
       /\ TxFrames(log') = [i \in 1..1024 |-> WriteFrame(i - 1, dev.mem[i - 1])]

(* C19: eeprom_copy followed directly by eeprom_paste of the array it      *)
(* filled leaves every word of the device equal to its value before the    *)
(* copy, for every initial memory content and either state of the enable   *)
(* latch.                                                                  *)
C19_CopyPaste == [][CopyPasteStep]_vars

C19_Witness ==
  /\ call.name = "eeprom_paste"
  /\ call.buf = PatternImage
  /\ dev.wen
  /\ dev.mem = PatternImage
  /\ buffer = PatternImage
  /\ Cardinality(Positions(log, "tx")) = 1024

(* C20: eeprom_write_buf(start_addr, buf, len) issues exactly len write    *)
(* transactions, transaction i (from 0) carrying buf[i] and the framed     *)
(* address (start_addr + i) mod 1024 for every 16-bit start_addr, also     *)
(* where start_addr + i passes 1023 or 65535; with len = 0 it makes no     *)
(* chip-select or bus event.                                               *)
C20_WriteBuf ==
  call.name = "eeprom_write_buf" =>
    /\ TxFrames(log) =
         [i \in 1..call.len |->
            WriteFrame((call.addr + i - 1) % 1024, call.buf[i])]
    /\ Len(RxFrames(log)) = 0
    /\ call.len = 0 => log = <<>>

C20_Witness ==
  /\ call.name = "eeprom_write_buf"
  /\ call.addr = 65535
  /\ call.len = 3
  /\ TxFrames(log) =
       <<(<<23, 255, 18, 52>>), <<20, 0, 86, 120>>, <<20, 1, 154, 188>>>>

(* The number of characters before the first zero byte of chars. *)
StrLen(chars) ==
  (CHOOSE i \in 1..Len(chars) :
     chars[i] = 0 /\ \A j \in 1..(i - 1) : chars[j] # 0) - 1

(* The number of words that hold a text of n characters. *)
StrWords(n) == (n + 1) \div 2

(* C21: eeprom_write_string packs two characters per word, high byte      *)
(* first: the k-th word written (k from 0) is text[2k]*256 + text[2k+1],  *)
(* with a low byte of 0 when text[2k+1] is the terminating zero, and it   *)
(* is written to address (start_addr + k) mod 1024, in increasing k.      *)
C21_StringPacking ==
  call.name = "eeprom_write_string" =>
    /\ Len(TxFrames(log)) >= StrWords(StrLen(call.chars))
    /\ \A k \in 0..(StrWords(StrLen(call.chars)) - 1) :
         TxFrames(log)[k + 1] =
           WriteFrame((call.addr + k) % 1024,
                      call.chars[2 * k + 1] * 256 + call.chars[2 * k + 2])

C21_Witness ==
  /\ call.name = "eeprom_write_string"
  /\ call.addr = 65535
  /\ call.chars = <<200, 98, 99, 0, 0, 0>>
  /\ TxFrames(log) = <<(<<23, 255, 200, 98>>), (<<20, 0, 99, 0>>)>>

(* C22 as stated: for every zero-terminated text of n non-zero characters, *)
(* odd or even, exactly ceil(n/2) words are written, no word is written    *)
(* after the word whose high or low byte is the terminating zero, and no   *)
(* character at an index greater than n is read.  The loop tests str[i]    *)
(* once per word written and once more on leaving, i being twice the       *)
(* number of words written so far, so the last character it reads is the   *)
(* one at index 2 * (words written).                                       *)
C22_Stated ==
  call.name = "eeprom_write_string" =>
    /\ Len(TxFrames(log)) = StrWords(StrLen(call.chars))
    /\ 2 * Len(TxFrames(log)) <= StrLen(call.chars)

(* eeprom_write_string returned with the latch set and eeprom_read_string  *)
(* is called next at the same start address with max_len > n + 1: out     *)
(* then begins with the text and a zero byte.                              *)
RoundTripStep ==
  (/\ call.name = "eeprom_write_string"
   /\ dev.wen
   /\ call'.name = "eeprom_read_string"
   /\ call'.addr = call.addr
   /\ call'.len > StrLen(call.chars) + 1)
  => /\ Len(str') >= StrLen(call.chars) + 1
     /\ SubSeq(str', 1, StrLen(call.chars) + 1) =
          SubSeq(call.chars, 1, StrLen(call.chars) + 1)

(* C23 as stated: against the device with writes enabled, for every        *)
(* initial memory, every start address, every text of n >= 0 non-zero      *)
(* characters and every max_len > n + 1, eeprom_write_string followed by   *)
(* eeprom_read_string at the same start address leaves in out exactly the  *)
(* text followed by a zero byte.                                           *)
C23_Stated == [][RoundTripStep]_vars

(* The word a response carries has a zero byte in its high or low half. *)
HasZeroByte(rx) == Decoded(rx) \div 256 = 0 \/ Decoded(rx) % 256 = 0

(* The characters the words of the responses rxs hold, high byte first. *)
CharsOf(rxs) ==
  [j \in 1..(2 * Len(rxs)) |->
     IF j % 2 = 1 THEN Decoded(rxs[(j + 1) \div 2]) \div 256
     ELSE Decoded(rxs[j \div 2]) % 256]

(* C24: for every max_len >= 1 and every device content,                   *)
(* eeprom_read_string reads consecutive masked addresses from start_addr,  *)
(* performs no read after the first word that has a zero byte in its high  *)
(* or low half, performs at most ceil((max_len - 1) / 2) reads, never      *)
(* writes an output index >= max_len, and on return there is a zero byte   *)
(* at the index following the last stored character, which is at most      *)
(* max_len - 1; it stops short of ceil((max_len - 1) / 2) reads only at a  *)
(* word with a zero byte, and the characters stored are those of the       *)
(* words read, high byte first.                                            *)
C24_ReadString ==
  (call.name = "eeprom_read_string" /\ call.len >= 1) =>
    /\ \A k \in 1..Len(TxFrames(log)) :
         TxFrames(log)[k] = ReadFrame((call.addr + k - 1) % 1024)
    /\ Len(RxFrames(log)) = Len(TxFrames(log))
    /\ \A k \in 1..(Len(RxFrames(log)) - 1) : ~HasZeroByte(RxFrames(log)[k])
    /\ Len(TxFrames(log)) <= call.len \div 2
    /\ Len(TxFrames(log)) < call.len \div 2 =>
         /\ Len(TxFrames(log)) >= 1
         /\ HasZeroByte(RxFrames(log)[Len(RxFrames(log))])
    /\ Len(str) >= 1
    /\ Len(str) <= call.len
    /\ str[Len(str)] = 0
    /\ \A j \in 1..(Len(str) - 1) : str[j] = CharsOf(RxFrames(log))[j]

C24_Witness ==
  /\ call.name = "eeprom_read_string"
  /\ call.len = 4
  /\ TxFrames(log) = <<ReadFrame(1023), ReadFrame(0)>>
  /\ str = <<72, 105, 255, 0>>

(* The positions of the log holding bus transfers, faulted ones included. *)
Transfers(l) == {i \in 1..Len(l) : l[i].k \in {"tx", "rx", "fault"}}

(* C25 as stated: if a bus transfer reports a fault, the operation in      *)
(* progress aborts and the fault reaches the caller: no further bus        *)
(* transfer is performed by that operation, bulk operations perform no     *)
(* further transaction, eeprom_read delivers no word, and eeprom_copy      *)
(* does not hand back a partially filled image as if it were complete      *)
(* (it stores nothing after the fault).                                    *)
C25_Stated ==
  \A f \in Positions(log, "fault") :
    /\ \A j \in Transfers(log) : j <= f
    /\ call.name = "eeprom_read" => data = NoData
    /\ \A j \in Positions(log, "store") : j < f

(* The first position from j on that holds a bus transfer or a sleep, 0    *)
(* when the log has none.                                                  *)
RECURSIVE NextBusOrSleep(_, _)
NextBusOrSleep(l, j) ==
  IF j > Len(l) THEN 0
  ELSE IF l[j].k \in {"tx", "rx", "sleep_ms"} THEN j
  ELSE NextBusOrSleep(l, j + 1)

(* After position i the log holds a sleep of ms milliseconds before any   *)
(* bus transfer.                                                           *)
SettledAfter(l, i, ms) ==
  /\ NextBusOrSleep(l, i + 1) # 0
  /\ l[NextBusOrSleep(l, i + 1)] = EvSleep(ms)

(* Write frames are the 4-byte frames; Erase frames the 2-byte frames     *)
(* whose top three bits are the opcode 111.                               *)
IsWriteFrame(e) == e.k = "tx" /\ e.n = 4

IsEraseFrame(e) == e.k = "tx" /\ e.n = 2 /\ e.bytes[1] >= 224

(* C26: after a Write frame has been transmitted no further bus transfer   *)
(* takes place until a 7 ms settle delay has completed, and after an       *)
(* Erase frame none until a 4 ms settle delay has completed; this holds    *)
(* between the consecutive elements of eeprom_write_buf, eeprom_paste and  *)
(* eeprom_write_string as well: every call's log has the delay behind      *)
(* each such frame, before its next transfer and before its end.           *)
C26_SettleBeforeNext ==
  \A i \in Positions(log, "tx") :
    /\ IsWriteFrame(log[i]) => SettledAfter(log, i, WriteSettleMs)
    /\ IsEraseFrame(log[i]) => SettledAfter(log, i, EraseSettleMs)

C26_Witness ==
  /\ call.name = "eeprom_write_buf"
  /\ call.len = 3
  /\ Cardinality(Positions(log, "tx")) = 3
  /\ \A i \in Positions(log, "tx") : log[i + 1] = EvSleep(7)
  /\ Cardinality(Positions(log, "sleep_ms")) = 3

(* The level of the line just before event i of the log l of a call that  *)
(* started with the line at level0.                                        *)
RECURSIVE LineAt(_, _, _)
LineAt(l, i, level0) ==
  IF i <= 1 THEN level0
  ELSE IF l[i - 1].k = "cs" THEN l[i - 1].n
  ELSE LineAt(l, i - 1, level0)

(* Every bus transfer of the call just made found the line asserted. *)
AssertedStep ==
  \A i \in Positions(log', "tx") \cup Positions(log', "rx") :
    LineAt(log', i, cs) = 1

(* C27: every bus transfer, the transmit of every frame and the receive   *)
(* of every read response, takes place while the chip-select line is       *)
(* asserted (level 1), including the transfers made by eeprom_read inside  *)
(* eeprom_dump and eeprom_copy.                                            *)
C27_BusWhileAsserted == [][AssertedStep]_vars

C27_Witness ==
  /\ call.name = "eeprom_copy"
  /\ Cardinality(Positions(log, "rx")) = 1024
  /\ \A i \in Positions(log, "rx") : LineAt(log, i, 0) = 1
  /\ log[3] = EvCs(1)
  /\ log[5].k = "tx"

(* C28: the dump flag is 1 only while eeprom_dump or eeprom_copy executes; *)
(* it is 0 at entry to and at return from every public operation, so       *)
(* every eeprom_read called directly or from eeprom_read_string performs   *)
(* its own deassert-assert sequence before the command and after the       *)
(* response, while the reads made inside eeprom_dump and eeprom_copy add   *)
(* no chip-select event to the toggle of the loop.                         *)
C28_DumpFlag ==
  /\ dump_flag = 0
  /\ call.name \in {"eeprom_read", "eeprom_read_string"} =>
       \A i \in Positions(log, "tx") :
         /\ i >= 5
         /\ Slice(log, i - 4, i - 1) = Reselect
         /\ log[i + 1].k = "rx"
         /\ Slice(log, i + 2, i + 5) = Reselect
  /\ call.name \in {"eeprom_dump", "eeprom_copy"} =>
       /\ Cardinality(Positions(log, "cs")) = 2 * 1024
       /\ \A i \in Positions(log, "tx") :
            /\ Slice(log, i - 4, i - 1) = Reselect
            /\ log[i + 1].k = "rx"
            /\ log[i + 2].k \in {"print", "store"}

C28_Witness ==
  /\ call.name = "eeprom_read_string"
  /\ steps = 2
  /\ dump_flag = 0
  /\ buffer = dev.mem
  /\ Cardinality(Positions(log, "tx")) = 2
  /\ Slice(log, 1, 4) = Reselect
  /\ Slice(log, 7, 14) = Reselect \o Reselect

(* A world with no history: the device as at power-up, all words erased,   *)
(* the dump flag at f, the line at level, the data input delivering feed.  *)
RefWorld(f, level, feed) ==
  [cs |-> level, dump_flag |-> f, dev |-> DevPowerUp(ErasedImage, level),
   log |-> <<>>, data |-> NoData, rxbuf |-> <<0, 0, 0>>, feed |-> feed,
   buf |-> IndeterminateImage, str |-> <<>>, fault |-> 0]

(* The call c made in the world w. *)
RunIn(w, c) ==
  CASE c.name = "eeprom_read" -> eeprom_read(w, c.addr)
    [] c.name = "eeprom_write" -> eeprom_write(w, c.addr, c.data)
    [] c.name = "eeprom_erase" -> eeprom_erase(w, c.addr)
    [] c.name = "eeprom_write_enable" -> eeprom_write_enable(w)
    [] OTHER -> eeprom_write_disable(w)

(* The events of a log other than those of the chip-select line. *)
BusAndSleep(l) == SelectSeq(l, LAMBDA e : e.k \in {"tx", "rx", "sleep_ms"})

(* The call just made, repeated in the world r with the bytes it received, *)
(* transmits and delivers the same.                                        *)
SameFrames(r) ==
  /\ TxFrames(r.log) = TxFrames(log)
  /\ BusAndSleep(r.log) = BusAndSleep(log)
  /\ call.name = "eeprom_read" => r.data = data

(* C29: frame construction is history-independent: started in states that  *)
(* differ in the dump flag, the chip-select level or the operations made   *)
(* before (latch and memory of the device), the same operation with the    *)
(* same address and data transmits the same bytes, and eeprom_read given   *)
(* the same received bytes delivers the same word; only the chip-select    *)
(* events differ.                                                          *)
C29_HistoryIndependent ==
  call.name \in {"eeprom_read", "eeprom_write", "eeprom_erase",
                 "eeprom_write_enable", "eeprom_write_disable"} =>
    \A f \in {0, 1}, level \in {0, 1} :
      SameFrames(RunIn(RefWorld(f, level,
                                IF call.name = "eeprom_read"
                                THEN RxFrames(log)[1] ELSE <<>>),
                       call))

C29_Witness ==
  /\ call.name = "eeprom_read"
  /\ call.addr = 16
  /\ dev.wen
  /\ dev.mem[16] = 57005
  /\ dev.mem[17] = 16386
  /\ data = 57005
  /\ Len(log) = 10
  /\ RunIn(RefWorld(1, 0, RxFrames(log)[1]), call).data = 57005
  /\ Len(RunIn(RefWorld(1, 0, RxFrames(log)[1]), call).log) = 2

(* The operation a frame stands for, read off its bytes alone: 4 bytes are *)
(* a write, with the address in bits 25..16 and the word in bits 15..0; of *)
(* the 2-byte frames, those with the top bits 111 are an erase with the    *)
(* address in bits 12..3, 0x98 0x00 and 0x80 0x00 are enable and disable,  *)
(* the others a read with the address in bits 9..0.                        *)
FrameOp(bytes) ==
  IF Len(bytes) = 4 THEN
    [name |-> "eeprom_write", addr |-> (bytes[1] % 4) * 256 + bytes[2],
     data |-> bytes[3] * 256 + bytes[4]]
  ELSE IF bytes[1] >= 224 THEN
    [name |-> "eeprom_erase",
     addr |-> ((bytes[1] % 32) * 256 + bytes[2]) \div 8, data |-> 0]
  ELSE IF bytes = EnableFrame THEN
    [name |-> "eeprom_write_enable", addr |-> 0, data |-> 0]
  ELSE IF bytes = DisableFrame THEN
    [name |-> "eeprom_write_disable", addr |-> 0, data |-> 0]
  ELSE
    [name |-> "eeprom_read", addr |-> (bytes[1] % 4) * 256 + bytes[2],
     data |-> 0]

(* C30: the frame encoding is injective over masked addresses 0..1023 and  *)
(* data 0..65535: two operations transmit the same byte sequence only if   *)
(* they are the same kind with the same masked address and the same data,  *)
(* since kind, address and data are read back from the bytes alone; no     *)
(* Read, Write or Erase frame equals the enable or the disable frame.      *)
C30_EncodingInjective ==
  call.name \in {"eeprom_read", "eeprom_write", "eeprom_erase",
                 "eeprom_write_enable", "eeprom_write_disable"} =>
    /\ Len(TxFrames(log)) = 1
    /\ FrameOp(TxFrames(log)[1]) =
         [name |-> call.name, addr |-> call.addr % 1024, data |-> call.data]
    /\ call.name \in {"eeprom_read", "eeprom_write", "eeprom_erase"} =>
         TxFrames(log)[1] \notin {EnableFrame, DisableFrame}

C30_Witness ==
  /\ call.name = "eeprom_erase"
  /\ call.addr = 512
  /\ TxFrames(log) = <<(<<240, 0>>)>>
  /\ FrameOp(<<240, 0>>).addr = 512
  /\ FrameOp(<<224, 0>>).addr = 0

(* C31 as stated: eeprom_read_string called with max_len = 0 issues no     *)
(* read transaction and writes no byte of the output buffer.               *)
C31_Stated ==
  (call.name = "eeprom_read_string" /\ call.len = 0) =>
    /\ Len(TxFrames(log)) = 0
    /\ str = <<>>

(* A step of eeprom_write makes the events, and leaves the line and the    *)
(* device, as the eeprom_write of backup_of_working.txt does from the same *)
(* state with the same arguments.                                          *)
BackupStep ==
  call'.name = "eeprom_write" =>
    /\ log' = backup_eeprom_write(World(<<>>), call'.addr, call'.data).log
    /\ dev' = backup_eeprom_write(World(<<>>), call'.addr, call'.data).dev
    /\ cs' = backup_eeprom_write(World(<<>>), call'.addr, call'.data).cs
    /\ log' = Reselect
                \o <<EvTx(WriteFrame(call'.addr % 1024, call'.data)), EvSleep(7)>>
                \o Reselect

(* C32: the eeprom_write preserved in backup_of_working.txt and the        *)
(* eeprom_write of spi_flash.c are equivalent: for every addr and data     *)
(* they produce the same sequence of events (deassert, assert, the same 4  *)
(* frame bytes, 7 ms delay, deassert, assert).                             *)
C32_BackupEquivalent == [][BackupStep]_vars

C32_Witness ==
  /\ call.name = "eeprom_write"
  /\ call.addr = 65535
  /\ call.data = 57005
  /\ log = Reselect \o <<EvTx(<<23, 255, 222, 173>>), EvSleep(7)>> \o Reselect
  /\ backup_eeprom_write(RefWorld(0, 1, <<>>), 65535, 57005).log = log

(* A write to a device whose latch is set, by the older eeprom_write,      *)
(* stores the data shifted right by one bit, which differs from every      *)
(* data but 0; by the present eeprom_write it stores data.                 *)
ShiftStep ==
  /\ (call'.name = "part000_eeprom_write" /\ dev.wen) =>
       /\ TxFrames(log') =
            <<BytesMSB(5 * 268435456 + (call'.addr % 1024) * 262144
                         + call'.data * 2, 4)>>
       /\ dev'.mem[call'.addr % 1024] = call'.data \div 2
       /\ call'.data # 0 => dev'.mem[call'.addr % 1024] # call'.data
       /\ \A a \in 0..(NumWords - 1) :
            a # call'.addr % 1024 => dev'.mem[a] = dev.mem[a]
  /\ (call'.name = "eeprom_write" /\ dev.wen) =>
       /\ dev'.mem[call'.addr % 1024] = call'.data
       /\ \A a \in 0..(NumWords - 1) :
            a # call'.addr % 1024 => dev'.mem[a] = dev.mem[a]

(* C33: the historical eeprom_write with the extra shift, frame =           *)
(* ((0b101 << 27) | ((addr & 0x3FF) << 17) | data) << 1, does not round-    *)
(* trip against the device: there are addr and data (every data but 0) for  *)
(* which the word the device stores differs from data, whereas the present  *)
(* unshifted layout stores data for all addr and data.                      *)
C33_ExtraShiftCorrupts == [][ShiftStep]_vars

C33_Witness ==
  /\ call.name = "part000_eeprom_write"
  /\ call.addr = 16
  /\ call.data = 57005
  /\ dev.wen
  /\ TxFrames(log) = <<(<<80, 65, 189, 90>>)>>
  /\ dev.mem[16] = 28502

====
